---- MODULE Spec2Model ----
(***************************************************************************)
(* The batch classification driver of hazmate (src/hazmate/agent/__main__  *)
(* and HazmatAgent in src/hazmate/agent/agent.py).                         *)
(*                                                                         *)
(* Texts are modelled by their length: the token estimator reads nothing   *)
(* else of a text.  An input item is [item_id, xml_len], xml_len being the *)
(* length of get_all_text_content_as_xml() of the item.  A prediction is   *)
(* [item_id, is_hazmat]; a labeled item joins the two.                     *)
(*                                                                         *)
(* Spec is the driver, SpecOrdered the driver with the order of its        *)
(* create_task calls recorded, FairSpec and PoisonSpec the driver under a   *)
(* fair event loop, SpecAgent single calls of the agent's methods and of   *)
(* HazmatLabeledItem, SpecEval the loop of scripts/evaluate_on_hazmat.py,  *)
(* SpecUtils single calls of the functions of src/hazmate/utils,           *)
(* SpecQueued and FairQueued the tasks of ainterleave_queued (and          *)
(* SpecQueuedNone the same with items that are None), SpecExtract and      *)
(* FairExtract one call of _extract_batch taken step by step, SpecPaginate *)
(* and FairPaginate the paginated search of the dataset builder, SpecQuery *)
(* the item stream of one of its queries.                                  *)
(***************************************************************************)
EXTENDS Integers, Sequences, FiniteSets, TLC

(* ---------------------------- bounds ----------------------------------- *)
MaxItems == 3
MaxParallel == 2

(* ------------------------ input value sets ----------------------------- *)
\* lengths of an item's rendered XML: a short item and a long one
XmlLens == [short |-> 40, long |-> 100]
\* --max-input-tokens values: 70 fits two short items and no long one,
\* 85 fits three short items or one long item alone
TokenBudgets == {70, 85}
\* an item_id the model may return although no input item has it
ForeignId == MaxItems + 1
\* the is_hazmat verdicts the model gives while the driver runs; the driver
\* never reads a verdict, it copies it into the record it writes
Verdicts == {TRUE}

PromptHeaderLen == 124

VARIABLES
    input,              \* the input dataset, as read from --input
    batch_size,         \* --batch-size
    max_input_tokens,   \* --max-input-tokens
    parallel_batches,   \* --parallel-batches
    on_existing_output, \* --on-existing-output of the current run
    output_exists,      \* whether the output file exists
    output_file,        \* the lines of the output file
    items_to_process,   \* the work pool
    tasks,              \* the in-flight asyncio tasks
    pc,                 \* position of main: start, fill, wait, done, error
    error,              \* the exception that ended the run
    run_base,           \* history: lines in the output file when the run opened it
    prev_completed,     \* history: the previous run ended normally
    call,               \* the function called directly: its arguments, its
                        \* frame while it runs, its outcome
    all_results,        \* the labeled items the evaluation script has collected
    dispatched          \* history, kept when .on: the batches in flight in
                        \* create_task order, with the batches written while
                        \* a batch created before them is in flight

vars == <<input, batch_size, max_input_tokens, parallel_batches,
          on_existing_output, output_exists, output_file, items_to_process,
          tasks, pc, error, run_base,
          prev_completed, call, all_results, dispatched>>

config == <<input, batch_size, max_input_tokens, parallel_batches>>

(* ----------------------------- helpers --------------------------------- *)
Min(a, b) == IF a <= b THEN a ELSE b

SeqsUpTo(S, n) == UNION {[1..k -> S] : k \in 0..n}

Range(s) == {s[i] : i \in 1..Len(s)}

Ids(s) == {s[i].item_id : i \in 1..Len(s)}

RECURSIVE SumLen(_)
SumLen(s) == IF s = <<>> THEN 0 ELSE s[1].xml_len + SumLen(Tail(s))

RECURSIVE Filter(_, _)
\* the items of s whose item_id is in keep, in order
Filter(s, keep) ==
    IF s = <<>> THEN <<>>
    ELSE IF s[1].item_id \in keep THEN <<s[1]>> \o Filter(Tail(s), keep)
         ELSE Filter(Tail(s), keep)

Perms(S) == {p \in [1..Cardinality(S) -> S] : Range(p) = S}

(* ------------------------- utils/tokens.py ----------------------------- *)
\* the estimate with the overestimate rounded down
estimate_token_count_floored(text_len, approximation_mode) ==
    IF approximation_mode = "underestimate"
    THEN text_len \div 5
    ELSE text_len \div 3

estimate_token_count(text_len, approximation_mode) ==
    IF approximation_mode = "underestimate"
    THEN text_len \div 5
    ELSE (text_len + 2) \div 3

(* ---------------------------- agent.py --------------------------------- *)
\* "\n".join(...) of the items' XML, then the template around it
get_user_prompt_for_batch(items) ==
    PromptHeaderLen + SumLen(items)
        + (IF Len(items) > 0 THEN Len(items) - 1 ELSE 0)

batch_token_estimator(batch) ==
    estimate_token_count(get_user_prompt_for_batch(batch), "overestimate")

\* predict_batch raising only when an input id is missing from the answer
predict_batch_missing_only(items, predictions, allow_mismatched_predictions) ==
    LET item_ids == Ids(items)
        prediction_ids == Ids(predictions)
    IN  IF ~allow_mismatched_predictions /\ (item_ids \ prediction_ids) # {}
        THEN [raised |-> "MismatchedPredictionsError",
              input_ids |-> item_ids,
              prediction_ids |-> prediction_ids]
        ELSE [raised |-> "none", value |-> predictions]

\* predict_batch after the model has answered with predictions
predict_batch(items, predictions, allow_mismatched_predictions) ==
    LET item_ids == Ids(items)
        prediction_ids == Ids(predictions)
    IN  IF ~allow_mismatched_predictions /\ prediction_ids # item_ids
        THEN [raised |-> "MismatchedPredictionsError",
              input_ids |-> item_ids,
              prediction_ids |-> prediction_ids]
        ELSE [raised |-> "none", value |-> predictions]

\* dict comprehension {x.item_id: x for x in s}: the last entry of an id wins
LastWith(s, id) ==
    s[CHOOSE i \in 1..Len(s) :
        /\ s[i].item_id = id
        /\ \A j \in (i + 1)..Len(s) : s[j].item_id # id]

\* keys of {x.item_id: x for x in s} in insertion order (first occurrence)
RECURSIVE KeyOrder(_, _)
KeyOrder(s, seen) ==
    IF s = <<>> THEN <<>>
    ELSE IF s[1].item_id \in seen THEN KeyOrder(Tail(s), seen)
         ELSE <<s[1].item_id>> \o KeyOrder(Tail(s), seen \cup {s[1].item_id})

\* from_input_and_prediction without the comparison of the ids
from_input_and_prediction_unchecked(input_item, prediction) ==
    [raised |-> "none",
     value |-> [item_id |-> input_item.item_id,
                xml_len |-> input_item.xml_len,
                is_hazmat |-> prediction.is_hazmat]]

\* labeled_items.py
from_input_and_prediction(input_item, prediction) ==
    IF input_item.item_id # prediction.item_id
    THEN [raised |-> "MismatchedItemIdsError"]
    ELSE [raised |-> "none",
          value |-> [item_id |-> input_item.item_id,
                     xml_len |-> input_item.xml_len,
                     is_hazmat |-> prediction.is_hazmat]]

\* Python's None, for the optional text fields
None == "None"

\* labeled_items.py with the items and predictions field by field
HazmatLabeledItem_from_input_and_prediction(input_item, prediction) ==
    IF input_item.item_id # prediction.item_id
    THEN [raised |-> "MismatchedItemIdsError"]
    ELSE [raised |-> "none",
          value |-> [item_id |-> input_item.item_id,
                     name |-> input_item.name,
                     domain_id |-> input_item.domain_id,
                     family_name |-> input_item.family_name,
                     description |-> input_item.description,
                     short_description |-> input_item.short_description,
                     keywords |-> input_item.keywords,
                     is_hazmat |-> prediction.is_hazmat,
                     traits |-> prediction.traits,
                     reason |-> prediction.reason]]

\* the property input_item: a HazmatInputItem built from six fields of the
\* labeled item, every other field at its default
HazmatLabeledItem_input_item(self) ==
    [item_id |-> self.item_id,
     name |-> self.name,
     domain_id |-> self.domain_id,
     family_name |-> self.family_name,
     permalink |-> None,
     description |-> self.description,
     short_description |-> self.short_description,
     keywords |-> None,
     attributes |-> <<>>,
     main_features |-> <<>>]

\* the property prediction
HazmatLabeledItem_prediction(self) ==
    [item_id |-> self.item_id,
     is_hazmat |-> self.is_hazmat,
     traits |-> self.traits,
     reason |-> self.reason]

\* the default of predict_item's on_different_id
OnDifferentIdDefault == "raise"

\* predict_item with 'fix' leaving the prediction as the model gave it
predict_item_unfixed(item, prediction, on_different_id) ==
    IF prediction.item_id # item.item_id /\ on_different_id = "raise"
    THEN [raised |-> "MismatchedItemIdsError"]
    ELSE [raised |-> "none", value |-> prediction]

\* predict_item after the model has answered with prediction
predict_item(item, prediction, on_different_id) ==
    IF prediction.item_id # item.item_id
    THEN CASE on_different_id = "raise" ->
                [raised |-> "MismatchedItemIdsError"]
           [] on_different_id = "fix" ->
                [raised |-> "none",
                 value |-> [prediction EXCEPT !.item_id = item.item_id]]
           [] on_different_id = "ignore" ->
                [raised |-> "none", value |-> prediction]
    ELSE [raised |-> "none", value |-> prediction]

classify_item(item, prediction) ==
    LET p == predict_item(item, prediction, OnDifferentIdDefault)
    IN  IF p.raised # "none" THEN p
        ELSE from_input_and_prediction(item, p.value)

RECURSIVE LabelAll(_, _, _)
\* the list comprehension of classify_batch over the keys of inputs_map
LabelAll(keys, items, predictions) ==
    IF keys = <<>> THEN <<>>
    ELSE IF keys[1] \in Ids(predictions)
         THEN <<from_input_and_prediction(LastWith(items, keys[1]),
                                          LastWith(predictions, keys[1]))>>
              \o LabelAll(Tail(keys), items, predictions)
         ELSE LabelAll(Tail(keys), items, predictions)

\* classify_batch labelling every prediction it got, matched or not
classify_batch_unreconciled(items, predictions, allow_mismatched_predictions) ==
    [raised |-> "none",
     value |-> [i \in 1..Len(predictions) |->
                   [item_id |-> predictions[i].item_id,
                    xml_len |-> 0,
                    is_hazmat |-> predictions[i].is_hazmat]]]

classify_batch(items, predictions, allow_mismatched_predictions) ==
    LET p == predict_batch(items, predictions, allow_mismatched_predictions)
    IN  IF p.raised # "none" THEN p
        ELSE LET made == LabelAll(KeyOrder(items, {}), items, p.value)
             IN  IF \E i \in 1..Len(made) : made[i].raised # "none"
                 THEN [raised |-> "MismatchedItemIdsError"]
                 ELSE [raised |-> "none",
                       value |-> [i \in 1..Len(made) |-> made[i].value]]

(* --------------------------- __main__.py ------------------------------- *)
\* what the model-run capability does with one prompt: it raises, or it
\* answers with a list of predictions
ModelAnswers(batch) ==
    {[raised |-> TRUE, predictions |-> <<>>]} \cup
    {[raised |-> FALSE, predictions |-> p] :
        p \in SeqsUpTo([item_id : Ids(input) \cup {ForeignId},
                        is_hazmat : Verdicts], Len(batch))}

\* _process_batch without its except clause
_process_batch_uncaught(batch, answer) ==
    IF answer.raised
    THEN [raised |-> "Exception"]
    ELSE LET r == classify_batch(batch, answer.predictions, TRUE)
         IN  IF r.raised # "none" THEN [raised |-> r.raised]
             ELSE [raised |-> "none", value |-> <<batch, r.value>>]

\* the outcome of the task: the pair it returns, or the exception it ends with
_process_batch(batch, answer) ==
    IF answer.raised
    THEN [raised |-> "none", value |-> <<batch, <<>>>>]
    ELSE LET r == classify_batch(batch, answer.predictions, TRUE)
         IN  IF r.raised # "none"
             THEN [raised |-> "none", value |-> <<batch, <<>>>>]
             ELSE [raised |-> "none", value |-> <<batch, r.value>>]

\* a loop that gives the whole candidate back when it is over the budget
ShrinkToNothing(pool, batch, max_tokens) ==
    IF batch_token_estimator(batch) > max_tokens
    THEN [raised |-> FALSE, batch |-> <<>>, pool |-> pool \o batch]
    ELSE [raised |-> FALSE, batch |-> batch, pool |-> pool]

RECURSIVE Shrink(_, _, _)
\* the while loop of _extract_batch
Shrink(pool, batch, max_tokens) ==
    IF batch_token_estimator(batch) > max_tokens
    THEN IF Len(batch) = 1
         THEN [raised |-> TRUE, batch |-> batch, pool |-> pool]
         ELSE LET h == Len(batch) \div 2
              IN  Shrink(pool \o SubSeq(batch, 1, h),
                         SubSeq(batch, h + 1, Len(batch)), max_tokens)
    ELSE [raised |-> FALSE, batch |-> batch, pool |-> pool]

\* _extract_batch without the token check
_extract_batch_unchecked(pool, size, max_tokens) ==
    LET items_to_batch == Min(size, Len(pool))
        n == Len(pool)
    IN  [raised |-> FALSE,
         batch |-> [i \in 1..items_to_batch |-> pool[n + 1 - i]],
         pool |-> SubSeq(pool, 1, n - items_to_batch)]

_extract_batch(pool, size, max_tokens) ==
    LET items_to_batch == Min(size, Len(pool))
        n == Len(pool)
        batch == [i \in 1..items_to_batch |-> pool[n + 1 - i]]
    IN  Shrink(SubSeq(pool, 1, n - items_to_batch), batch, max_tokens)

\* the pool without the filter on processed_item_ids
StartPoolUnfiltered(items, mode, exists, file) == items

\* the pool main builds before the loop
StartPool(items, mode, exists, file) ==
    IF mode = "continue" /\ exists
    THEN Filter(items, Ids(items) \ Ids(file))
    ELSE items

\* the file opened in 'w' mode whatever the option
OpenOutputTruncating(mode, file) == <<>>

\* the file as output.open(file_mode) leaves it
OpenOutput(mode, file) == IF mode = "continue" THEN file ELSE <<>>

\* the tasks of the for loop over done that run before task.result() raises
Handled(order) ==
    LET stop == {i \in 1..Len(order) : order[i].exception # "none"}
    IN  IF stop = {} THEN order
        ELSE SubSeq(order, 1, (CHOOSE i \in stop : \A j \in stop : i <= j) - 1)

RECURSIVE RequeuedWhenEmpty(_)
\* re-queueing a batch only when nothing came back for it
RequeuedWhenEmpty(order) ==
    IF order = <<>> THEN <<>>
    ELSE (IF order[1].results = <<>> THEN order[1].batch ELSE <<>>)
         \o RequeuedWhenEmpty(Tail(order))

RECURSIVE RequeuedWholeBatch(_)
\* re-queueing the whole batch when any of its items is missing
RequeuedWholeBatch(order) ==
    IF order = <<>> THEN <<>>
    ELSE (IF Len(order[1].results) < Len(order[1].batch)
          THEN order[1].batch ELSE <<>>)
         \o RequeuedWholeBatch(Tail(order))

RECURSIVE Requeued(_)
\* items_to_process.extend(...) over the done tasks, in iteration order
Requeued(order) ==
    IF order = <<>> THEN <<>>
    ELSE LET t == order[1]
         IN  Filter(t.batch, Ids(t.batch) \ Ids(t.results))
             \o Requeued(Tail(order))

\* the results of all done tasks written in the order of their item ids
WrittenSorted(order) ==
    LET recs == UNION {Range(order[i].results) : i \in 1..Len(order)}
    IN  [k \in 1..Cardinality(recs) |->
            CHOOSE r \in recs :
                Cardinality({x \in recs : x.item_id <= r.item_id}) = k]

RECURSIVE Written(_)
\* f.write(...) over the done tasks, in iteration order
Written(order) ==
    IF order = <<>> THEN <<>> ELSE order[1].results \o Written(Tail(order))

(* ------------------------------ Init ----------------------------------- *)
NoCall == [fn |-> "none"]

NoError == [type |-> "none"]

\* the datasets: up to MaxItems items with distinct ids, all short but at
\* most one (the item at position long, if any)
Inputs ==
    UNION {{[i \in 1..n |-> [item_id |-> i,
                             xml_len |-> IF i = long THEN XmlLens.long
                                         ELSE XmlLens.short]] :
                long \in 0..n} : n \in 0..MaxItems}

Init ==
    /\ input \in Inputs
    /\ batch_size \in 1..MaxItems
    /\ max_input_tokens \in TokenBudgets
    /\ parallel_batches \in 1..MaxParallel
    /\ on_existing_output = "raise"
    /\ output_exists = FALSE
    /\ output_file = <<>>
    /\ items_to_process = <<>>
    /\ tasks = {}
    /\ pc = "start"
    /\ error = NoError
    /\ run_base = 0
    /\ prev_completed = FALSE
    /\ call = NoCall
    /\ all_results = <<>>
    /\ dispatched = [on |-> FALSE, order |-> <<>>]

(* ----------------------------- actions --------------------------------- *)
\* main without its test of the option against output.exists()
StartUnguarded(mode) ==
    /\ pc = "start"
    /\ on_existing_output' = mode
    /\ LET pool == StartPool(input, mode, output_exists, output_file)
       IN  /\ items_to_process' = pool
           /\ run_base' = Len(OpenOutput(mode, output_file))
           /\ output_exists' = TRUE
           /\ output_file' = OpenOutput(mode, output_file)
           /\ pc' = IF pool # <<>> THEN "fill" ELSE "done"
           /\ error' = NoError
    /\ UNCHANGED <<config, tasks, prev_completed, call, all_results, dispatched>>

\* main up to the driver loop (lines 113-160), invoked with one of the modes
Start(mode) ==
    /\ pc = "start"
    /\ on_existing_output' = mode
    /\ IF mode = "raise" /\ output_exists
       THEN /\ pc' = "error"
            /\ error' = [type |-> "FileExistsError"]
            /\ UNCHANGED <<output_exists, output_file, items_to_process,
                           run_base>>
       ELSE LET pool == StartPool(input, mode, output_exists, output_file)
            IN  /\ items_to_process' = pool
                /\ run_base' = Len(OpenOutput(mode, output_file))
                /\ output_exists' = TRUE
                /\ output_file' = OpenOutput(mode, output_file)
                /\ pc' = IF pool # <<>> THEN "fill" ELSE "done"
                /\ error' = NoError
    /\ UNCHANGED <<config, tasks, prev_completed, call, all_results, dispatched>>

\* the inner while without its test of len(tasks) against parallel_batches
DispatchUnbounded ==
    /\ pc = "fill"
    /\ items_to_process # <<>>
    /\ LET e == _extract_batch(items_to_process, batch_size, max_input_tokens)
       IN  IF e.raised
           THEN /\ pc' = "error"
                /\ error' = [type |-> "ValueError", batch |-> e.batch]
                /\ items_to_process' = e.pool
                /\ UNCHANGED <<tasks, dispatched>>
           ELSE /\ items_to_process' = e.pool
                /\ tasks' = tasks \cup {[batch |-> e.batch,
                                         status |-> "running",
                                         raised |-> FALSE,
                                         prediction_ids |-> {},
                                         exception |-> "none",
                                         results |-> <<>>]}
                /\ dispatched' =
                      IF dispatched.on
                      THEN [dispatched EXCEPT !.order =
                                Append(@, [batch |-> e.batch,
                                           written |-> FALSE])]
                      ELSE dispatched
                /\ UNCHANGED <<pc, error>>
    /\ UNCHANGED <<config, on_existing_output, output_exists, output_file,
                   run_base, prev_completed, call, all_results>>

\* one iteration of the inner while: extract a batch and create its task
Dispatch ==
    /\ pc = "fill"
    /\ items_to_process # <<>>
    /\ Cardinality(tasks) < parallel_batches
    /\ LET e == _extract_batch(items_to_process, batch_size, max_input_tokens)
       IN  IF e.raised
           THEN /\ pc' = "error"
                /\ error' = [type |-> "ValueError", batch |-> e.batch]
                /\ items_to_process' = e.pool
                /\ UNCHANGED <<tasks, dispatched>>
           ELSE /\ items_to_process' = e.pool
                /\ tasks' = tasks \cup {[batch |-> e.batch,
                                         status |-> "running",
                                         raised |-> FALSE,
                                         prediction_ids |-> {},
                                         exception |-> "none",
                                         results |-> <<>>]}
                /\ dispatched' =
                      IF dispatched.on
                      THEN [dispatched EXCEPT !.order =
                                Append(@, [batch |-> e.batch,
                                           written |-> FALSE])]
                      ELSE dispatched
                /\ UNCHANGED <<pc, error>>
    /\ UNCHANGED <<config, on_existing_output, output_exists, output_file,
                   run_base, prev_completed, call, all_results>>

\* the inner while ends; main suspends in asyncio.wait
Await ==
    /\ pc = "fill"
    /\ ~(items_to_process # <<>> /\ Cardinality(tasks) < parallel_batches)
    /\ pc' = "wait"
    /\ UNCHANGED <<config, on_existing_output, output_exists, output_file,
                   items_to_process, tasks, error, run_base,
                   prev_completed, call, all_results, dispatched>>

\* task t runs _process_batch to its end, the model answering with a
TaskDoneWith(t, a) ==
    /\ pc = "wait"
    /\ t.status = "running"
    /\ LET r == _process_batch(t.batch, a)
       IN  tasks' = (tasks \ {t}) \cup
                {[t EXCEPT !.status = "done",
                           !.raised = a.raised,
                           !.prediction_ids = Ids(a.predictions),
                           !.exception = r.raised,
                           !.results = IF r.raised = "none"
                                       THEN r.value[2] ELSE <<>>]}
    /\ UNCHANGED <<config, on_existing_output, output_exists, output_file,
                   items_to_process, pc, error, run_base,
                   prev_completed, call, all_results, dispatched>>

\* a task runs to its end while main is suspended
TaskDone ==
    \E t \in tasks : \E a \in ModelAnswers(t.batch) : TaskDoneWith(t, a)

\* the history of create_task calls after the done tasks are reconciled: the
\* entry of a task that returned results is marked written, that of a task
\* that returned none is dropped, and so are the written entries that no
\* batch still in flight precedes
Observed(order, done) ==
    LET ResultsOf(e) == UNION {{t.results} : t \in {u \in done :
                                                       u.batch = e.batch}}
        kept == SelectSeq(order, LAMBDA e :
                    e.written \/ \A r \in ResultsOf(e) : r # <<>>)
        marked == [k \in 1..Len(kept) |->
                     [kept[k] EXCEPT !.written =
                         @ \/ ResultsOf(kept[k]) # {}]]
        open == {k \in 1..Len(marked) : ~marked[k].written}
    IN  IF open = {} THEN <<>>
        ELSE SubSeq(marked, CHOOSE k \in open : \A m \in open : k <= m,
                    Len(marked))

\* the outer loop testing the pool alone: `while items_to_process:`
ReconcilePoolOnly ==
    /\ pc = "wait"
    /\ LET done == {t \in tasks : t.status = "done"}
       IN  /\ done # {}
           /\ \E order \in Perms(done) :
                LET handled == Handled(order)
                IN  /\ items_to_process' = items_to_process \o Requeued(handled)
                    /\ output_file' = output_file \o Written(handled)
                    /\ tasks' = tasks \ done
                    /\ dispatched' = [dispatched EXCEPT !.order =
                                          Observed(@, done)]
                    /\ IF handled # order
                       THEN /\ pc' = "error"
                            /\ error' = [type |->
                                    order[Len(handled) + 1].exception]
                       ELSE /\ pc' = IF items_to_process' # <<>>
                                     THEN "fill" ELSE "done"
                            /\ UNCHANGED error
    /\ UNCHANGED <<config, on_existing_output, output_exists, run_base,
                   prev_completed, call, all_results>>

\* asyncio.wait with return_when=ALL_COMPLETED
ReconcileAllCompleted ==
    /\ pc = "wait"
    /\ LET done == {t \in tasks : t.status = "done"}
       IN  /\ done # {}
           /\ done = tasks
           /\ \E order \in Perms(done) :
                LET handled == Handled(order)
                IN  /\ items_to_process' = items_to_process \o Requeued(handled)
                    /\ output_file' = output_file \o Written(handled)
                    /\ tasks' = tasks \ done
                    /\ dispatched' = [dispatched EXCEPT !.order =
                                          Observed(@, done)]
                    /\ IF handled # order
                       THEN /\ pc' = "error"
                            /\ error' = [type |->
                                    order[Len(handled) + 1].exception]
                       ELSE /\ pc' = IF items_to_process' # <<>> \/ tasks' # {}
                                     THEN "fill" ELSE "done"
                            /\ UNCHANGED error
    /\ UNCHANGED <<config, on_existing_output, output_exists, run_base,
                   prev_completed, call, all_results>>

\* the outer loop never left: `while True:`
ReconcileLooping ==
    /\ pc = "wait"
    /\ LET done == {t \in tasks : t.status = "done"}
       IN  /\ done # {}
           /\ \E order \in Perms(done) :
                LET handled == Handled(order)
                IN  /\ items_to_process' = items_to_process \o Requeued(handled)
                    /\ output_file' = output_file \o Written(handled)
                    /\ tasks' = tasks \ done
                    /\ dispatched' = [dispatched EXCEPT !.order =
                                          Observed(@, done)]
                    /\ IF handled # order
                       THEN /\ pc' = "error"
                            /\ error' = [type |->
                                    order[Len(handled) + 1].exception]
                       ELSE /\ pc' = "fill"
                            /\ UNCHANGED error
    /\ UNCHANGED <<config, on_existing_output, output_exists, run_base,
                   prev_completed, call, all_results>>

\* asyncio.wait returns the done tasks; main re-queues and writes (181-190)
\* and tests the outer loop condition
Reconcile ==
    /\ pc = "wait"
    /\ LET done == {t \in tasks : t.status = "done"}
       IN  /\ done # {}
           /\ \E order \in Perms(done) :
                LET handled == Handled(order)
                IN  /\ items_to_process' = items_to_process \o Requeued(handled)
                    /\ output_file' = output_file \o Written(handled)
                    /\ tasks' = tasks \ done
                    /\ dispatched' = [dispatched EXCEPT !.order =
                                          Observed(@, done)]
                    /\ IF handled # order
                       THEN /\ pc' = "error"
                            /\ error' = [type |->
                                    order[Len(handled) + 1].exception]
                       ELSE /\ pc' = IF items_to_process' # <<>> \/ tasks' # {}
                                     THEN "fill" ELSE "done"
                            /\ UNCHANGED error
    /\ UNCHANGED <<config, on_existing_output, output_exists, run_base,
                   prev_completed, call, all_results>>

\* the command is run again on the same input and output paths
Rerun ==
    /\ pc \in {"done", "error"}
    /\ prev_completed' = (pc = "done")
    /\ pc' = "start"
    /\ tasks' = {}
    /\ dispatched' = [dispatched EXCEPT !.order = <<>>]
    /\ items_to_process' = <<>>
    /\ error' = NoError
    /\ UNCHANGED <<config, on_existing_output, output_exists, output_file,
                   run_base, call, all_results>>

Next ==
    \/ \E mode \in {"continue", "overwrite", "raise"} : Start(mode)
    \/ Dispatch
    \/ Await
    \/ TaskDone
    \/ Reconcile
    \/ Rerun

Spec == Init /\ [][Next]_vars

\* the runs of Spec with the order of create_task calls recorded
InitOrdered ==
    /\ input \in Inputs
    /\ batch_size \in 1..MaxItems
    /\ max_input_tokens \in TokenBudgets
    /\ parallel_batches \in 1..MaxParallel
    /\ on_existing_output = "raise"
    /\ output_exists = FALSE
    /\ output_file = <<>>
    /\ items_to_process = <<>>
    /\ tasks = {}
    /\ pc = "start"
    /\ error = NoError
    /\ run_base = 0
    /\ prev_completed = FALSE
    /\ call = NoCall
    /\ all_results = <<>>
    /\ dispatched = [on |-> TRUE, order |-> <<>>]

SpecOrdered == InitOrdered /\ [][Next]_vars

\* the model answers for the item with this id
TaskReturns(id) ==
    \E t \in tasks : \E a \in ModelAnswers(t.batch) :
        /\ id \in Ids(t.batch)
        /\ ~a.raised
        /\ id \in Ids(a.predictions)
        /\ TaskDoneWith(t, a)

\* the event loop runs main whenever it can go on, and the model answers for
\* an item that is sent to it again and again
FairSpec ==
    /\ Init /\ [][Next]_vars
    /\ WF_vars(Dispatch) /\ WF_vars(Await) /\ WF_vars(Reconcile)
    /\ \A id \in 1..MaxItems : SF_vars(TaskReturns(id))

(* --------------- a model that fails on one of the items ---------------- *)
\* the item the model call fails on: the last item of the input, which is
\* the first one the pool hands out
PoisonId == Len(input)

\* the model call raises for a batch that holds the item and answers every
\* item of a batch that does not
PoisonAnswer(batch) ==
    IF PoisonId \in Ids(batch)
    THEN [raised |-> TRUE, predictions |-> <<>>]
    ELSE [raised |-> FALSE,
          predictions |-> [i \in 1..Len(batch) |->
                              [item_id |-> batch[i].item_id,
                               is_hazmat |-> TRUE]]]

TaskDonePoison ==
    \E t \in tasks : TaskDoneWith(t, PoisonAnswer(t.batch))

NextPoison ==
    \/ \E mode \in {"continue", "overwrite", "raise"} : Start(mode)
    \/ Dispatch
    \/ Await
    \/ TaskDonePoison
    \/ Reconcile
    \/ Rerun

\* the event loop runs main and every task whenever they can go on
PoisonSpec ==
    /\ Init /\ [][NextPoison]_vars
    /\ WF_vars(Dispatch) /\ WF_vars(Await) /\ WF_vars(Reconcile)
    /\ WF_vars(TaskDonePoison)

(* ------------------- direct calls of the agent's methods --------------- *)
MaxCallLen == 2

CallItems ==
    SeqsUpTo([item_id : 1..MaxCallLen, xml_len : {XmlLens.short}], MaxCallLen)

CallPredictions ==
    SeqsUpTo([item_id : 0..MaxCallLen, is_hazmat : BOOLEAN], MaxCallLen)

\* the driver does not run while the agent is called directly
DriverIdle ==
    /\ input = <<>>
    /\ batch_size = 1
    /\ max_input_tokens \in {x \in TokenBudgets : \A y \in TokenBudgets : x <= y}
    /\ parallel_batches = 1
    /\ on_existing_output = "raise"
    /\ output_exists = FALSE
    /\ output_file = <<>>
    /\ items_to_process = <<>>
    /\ tasks = {}
    /\ pc = "start"
    /\ error = NoError
    /\ run_base = 0
    /\ prev_completed = FALSE
    /\ all_results = <<>>
    /\ dispatched = [on |-> FALSE, order |-> <<>>]

driver == <<input, batch_size, max_input_tokens, parallel_batches,
            on_existing_output, output_exists, output_file, items_to_process,
            tasks, pc, error, run_base, prev_completed, all_results,
            dispatched>>

InitAgent == DriverIdle /\ call = NoCall

CallPredictBatch ==
    /\ call = NoCall
    /\ \E items \in CallItems, predictions \in CallPredictions,
          allow \in BOOLEAN :
        call' = [fn |-> "predict_batch",
                 items |-> items,
                 predictions |-> predictions,
                 allow_mismatched_predictions |-> allow,
                 result |-> predict_batch(items, predictions, allow)]
    /\ UNCHANGED driver

CallClassifyBatch ==
    /\ call = NoCall
    /\ \E items \in CallItems, predictions \in CallPredictions,
          allow \in BOOLEAN :
        call' = [fn |-> "classify_batch",
                 items |-> items,
                 predictions |-> predictions,
                 allow_mismatched_predictions |-> allow,
                 result |-> classify_batch(items, predictions, allow)]
    /\ UNCHANGED driver

\* one input item and one prediction, as the driver's records
CallItem == [item_id : 1..MaxCallLen, xml_len : {XmlLens.short}]

CallPrediction == [item_id : 0..MaxCallLen, is_hazmat : BOOLEAN]

\* input items and predictions field by field
FullItems ==
    [item_id : 1..MaxCallLen, name : {"name"}, domain_id : {"domain"},
     family_name : {"family"}, permalink : {None, "url"},
     description : {None, "description"},
     short_description : {None, "short"}, keywords : {None, "keywords"},
     attributes : {<<>>, <<"attribute">>}, main_features : {<<>>}]

FullPredictions ==
    [item_id : 0..MaxCallLen, is_hazmat : BOOLEAN,
     traits : {<<>>, <<"flammable">>}, reason : {"reason"}]

\* a labeled item is built and its two properties are read
CallLabeledItem ==
    /\ call = NoCall
    /\ \E input_item \in FullItems, prediction \in FullPredictions :
        LET r == HazmatLabeledItem_from_input_and_prediction(input_item,
                                                             prediction)
        IN  call' = IF r.raised # "none"
                    THEN [fn |-> "HazmatLabeledItem",
                          input_item |-> input_item,
                          prediction |-> prediction,
                          result |-> r]
                    ELSE [fn |-> "HazmatLabeledItem",
                          input_item |-> input_item,
                          prediction |-> prediction,
                          result |-> r,
                          read_input_item |->
                              HazmatLabeledItem_input_item(r.value),
                          read_prediction |->
                              HazmatLabeledItem_prediction(r.value)]
    /\ UNCHANGED driver

CallFromInputAndPrediction ==
    /\ call = NoCall
    /\ \E item \in CallItem, prediction \in CallPrediction :
        call' = [fn |-> "from_input_and_prediction",
                 item |-> item,
                 prediction |-> prediction,
                 result |-> from_input_and_prediction(item, prediction)]
    /\ UNCHANGED driver

\* predict_item with on_different_id given or left to its default
CallPredictItem ==
    /\ call = NoCall
    /\ \E item \in CallItem, prediction \in CallPrediction,
          on_different_id \in {"raise", "fix", "ignore", "omitted"} :
        call' = [fn |-> "predict_item",
                 item |-> item,
                 prediction |-> prediction,
                 on_different_id |-> on_different_id,
                 result |-> predict_item(item, prediction,
                                IF on_different_id = "omitted"
                                THEN OnDifferentIdDefault
                                ELSE on_different_id)]
    /\ UNCHANGED driver

CallClassifyItem ==
    /\ call = NoCall
    /\ \E item \in CallItem, prediction \in CallPrediction :
        call' = [fn |-> "classify_item",
                 item |-> item,
                 prediction |-> prediction,
                 result |-> classify_item(item, prediction)]
    /\ UNCHANGED driver

NextAgent ==
    \/ CallPredictBatch
    \/ CallClassifyBatch
    \/ CallLabeledItem
    \/ CallFromInputAndPrediction
    \/ CallPredictItem
    \/ CallClassifyItem

SpecAgent == InitAgent /\ [][NextAgent]_vars

(* ---------------------- utils/async_itertools.py ------------------------ *)
\* An async iterator is the sequence of the items it has still to yield.

\* iterators.pop(index), index counted from 0
Pop(iterators, index) ==
    [k \in 1..(Len(iterators) - 1) |->
        IF k <= index THEN iterators[k] ELSE iterators[k + 1]]

RECURSIVE ainterleave_for(_, _, _, _, _)
\* the for loop of one pass, from i on; n is len(iterators) when the pass began
ainterleave_for(iterators, i, n, offset, out) ==
    IF i >= n THEN [iterators |-> iterators, out |-> out]
    ELSE LET index == i - offset
             it == iterators[index + 1]
         IN  IF it # <<>>
             THEN ainterleave_for([iterators EXCEPT ![index + 1] = Tail(it)],
                                  i + 1, n, offset, Append(out, Head(it)))
             ELSE ainterleave_for(Pop(iterators, index),
                                  i + 1, n, offset + 1, out)

RECURSIVE ainterleave_while(_, _)
ainterleave_while(iterators, out) ==
    IF iterators = <<>> THEN out
    ELSE LET pass == ainterleave_for(iterators, 0, Len(iterators), 0, out)
         IN  ainterleave_while(pass.iterators, pass.out)

RECURSIVE ainterleave_chained(_)
\* the iterators drained one after the other
ainterleave_chained(async_iterators) ==
    IF async_iterators = <<>> THEN <<>>
    ELSE Head(async_iterators) \o ainterleave_chained(Tail(async_iterators))

\* the items ainterleave yields, in order
ainterleave(async_iterators) == ainterleave_while(async_iterators, <<>>)

\* the (count, item) pairs aenumerate yields
aenumerate(async_iterator, start) ==
    [k \in 1..Len(async_iterator) |-> <<start + k - 1, async_iterator[k]>>]

RECURSIVE aislice_for(_, _, _, _)
\* the loop of aislice over the pairs left; stop is <<>> for None, <<n>> for n
aislice_for(pairs, start, stop, out) ==
    IF pairs = <<>> THEN out
    ELSE LET index == pairs[1][1]
             item == pairs[1][2]
         IN  IF stop # <<>> /\ index >= stop[1] THEN out
             ELSE aislice_for(Tail(pairs), start, stop,
                              IF index >= start THEN Append(out, item)
                              ELSE out)

RECURSIVE aislice_for_inclusive(_, _, _, _)
\* the loop breaking only once the index is past stop
aislice_for_inclusive(pairs, start, stop, out) ==
    IF pairs = <<>> THEN out
    ELSE LET index == pairs[1][1]
             item == pairs[1][2]
         IN  IF stop # <<>> /\ index > stop[1] THEN out
             ELSE aislice_for_inclusive(Tail(pairs), start, stop,
                                        IF index >= start THEN Append(out, item)
                                        ELSE out)

aislice_inclusive(async_iterator, start, stop) ==
    aislice_for_inclusive(aenumerate(async_iterator, 0), start, stop, <<>>)

RECURSIVE aislice_pulls(_, _, _)
\* the elements the loop of aislice has taken from its source when it ends:
\* each turn of async for takes one before the test against stop
aislice_pulls(pairs, stop, taken) ==
    IF pairs = <<>> THEN taken
    ELSE IF stop # <<>> /\ pairs[1][1] >= stop[1] THEN taken + 1
         ELSE aislice_pulls(Tail(pairs), stop, taken + 1)

\* how many elements aislice takes from its source
aislice_pulled(async_iterator, start, stop) ==
    aislice_pulls(aenumerate(async_iterator, 0), stop, 0)

\* the items aislice yields, in order
aislice(async_iterator, start, stop) ==
    aislice_for(aenumerate(async_iterator, 0), start, stop, <<>>)

(* ------------------- direct calls of the utilities --------------------- *)
\* The functions of utils/ called directly, as the unit tests call them.
MaxTextLen == 11

Chars == {"a", "b"}

Texts == SeqsUpTo(Chars, MaxTextLen)

InitUtils == DriverIdle /\ call = NoCall

CallEstimateTokenCount ==
    /\ call = NoCall
    /\ \E text \in Texts, mode \in {"overestimate", "underestimate"} :
        call' = [fn |-> "estimate_token_count",
                 text |-> text,
                 approximation_mode |-> mode,
                 result |-> estimate_token_count(Len(text), mode)]
    /\ UNCHANGED driver

MaxIters == 3

MaxIterLen == 2

\* what the callers iterate over: dataset items and the values of the unit
\* tests, none of them None
IterItems == {"a", "b"}

IterLists == SeqsUpTo(IterItems, MaxIterLen)

CallAinterleave ==
    /\ call = NoCall
    /\ \E iterators \in SeqsUpTo(IterLists, MaxIters) :
        call' = [fn |-> "ainterleave",
                 async_iterators |-> iterators,
                 result |-> ainterleave(iterators)]
    /\ UNCHANGED driver

CallAislice ==
    /\ call = NoCall
    /\ \E source \in IterLists, start \in -1..(MaxIterLen + 1),
          stop \in {<<>>} \cup {<<n>> : n \in -1..(MaxIterLen + 1)} :
        call' = [fn |-> "aislice",
                 async_iterator |-> source,
                 start |-> start,
                 stop |-> stop,
                 result |-> aislice(source, start, stop),
                 pulled |-> aislice_pulled(source, start, stop)]
    /\ UNCHANGED driver

NextUtils ==
    \/ CallEstimateTokenCount
    \/ CallAinterleave
    \/ CallAislice

SpecUtils == InitUtils /\ [][NextUtils]_vars

(* ------------------ ainterleave_queued, step by step ------------------- *)
\* The generator and its draining tasks on the event loop.  An input iterator
\* is its items and whether it raises once they are yielded.  call holds the
\* frame: sent[k] counts the items task k has put, status[k] is its state.
MaxQueued == 2

\* the item lists of the queued iterators: empty, one item, and two lists
\* that share their values in opposite orders
QueuedLists == {<<>>, <<"a">>, <<"a", "b">>, <<"b", "a">>}

QueuedIters ==
    SeqsUpTo([items : QueuedLists, raises : BOOLEAN], MaxQueued)

\* lines 32-45: the queue, the counters and one task per iterator
CallAinterleaveQueued ==
    /\ call = NoCall
    /\ \E iters \in QueuedIters :
        call' = [fn |-> "ainterleave_queued",
                 iters |-> iters,
                 sent |-> [k \in 1..Len(iters) |-> 0],
                 status |-> [k \in 1..Len(iters) |-> "running"],
                 queue |-> <<>>,
                 finished |-> 0,
                 total |-> Len(iters),
                 yielded |-> <<>>,
                 pc |-> "loop"]
    /\ UNCHANGED driver

\* drain_iterator: one turn of async for, the item put on the queue
DrainPut(k) ==
    /\ call.fn = "ainterleave_queued"
    /\ k \in 1..Len(call.iters)
    /\ call.status[k] = "running"
    /\ call.sent[k] < Len(call.iters[k].items)
    /\ call' = [call EXCEPT
                   !.queue = Append(@, call.iters[k].items[call.sent[k] + 1]),
                   !.sent[k] = @ + 1]
    /\ UNCHANGED driver

\* drain_iterator with the put of None after the loop instead of in a finally
DrainEndNoFinally(k) ==
    /\ call.fn = "ainterleave_queued"
    /\ k \in 1..Len(call.iters)
    /\ call.status[k] = "running"
    /\ call.sent[k] = Len(call.iters[k].items)
    /\ call' = [call EXCEPT
                   !.queue = IF call.iters[k].raises THEN @
                             ELSE Append(@, None),
                   !.status[k] = IF call.iters[k].raises THEN "raised"
                                 ELSE "done"]
    /\ UNCHANGED driver

\* drain_iterator: the iterator ends or raises, the finally puts None
DrainEnd(k) ==
    /\ call.fn = "ainterleave_queued"
    /\ k \in 1..Len(call.iters)
    /\ call.status[k] = "running"
    /\ call.sent[k] = Len(call.iters[k].items)
    /\ call' = [call EXCEPT
                   !.queue = Append(@, None),
                   !.status[k] = IF call.iters[k].raises THEN "raised"
                                 ELSE "done"]
    /\ UNCHANGED driver

\* the loop taking the entry put last instead of the one put first
QueueGetLast ==
    /\ call.fn = "ainterleave_queued"
    /\ call.pc = "loop"
    /\ call.finished < call.total
    /\ call.queue # <<>>
    /\ LET item == call.queue[Len(call.queue)]
       IN  call' = [call EXCEPT
                      !.queue = SubSeq(@, 1, Len(@) - 1),
                      !.finished = IF item = None THEN @ + 1 ELSE @,
                      !.yielded = IF item = None THEN @ ELSE Append(@, item)]
    /\ UNCHANGED driver

\* lines 47-52: one turn of the while loop, queue.get() having an entry
QueueGet ==
    /\ call.fn = "ainterleave_queued"
    /\ call.pc = "loop"
    /\ call.finished < call.total
    /\ call.queue # <<>>
    /\ LET item == Head(call.queue)
       IN  call' = [call EXCEPT
                      !.queue = Tail(@),
                      !.finished = IF item = None THEN @ + 1 ELSE @,
                      !.yielded = IF item = None THEN @ ELSE Append(@, item)]
    /\ UNCHANGED driver

\* lines 54-55: the loop is over, gather returns once every task has ended
Gather ==
    /\ call.fn = "ainterleave_queued"
    /\ call.pc = "loop"
    /\ call.finished >= call.total
    /\ \A k \in 1..Len(call.iters) : call.status[k] # "running"
    /\ call' = [call EXCEPT !.pc = "returned"]
    /\ UNCHANGED driver

NextQueued ==
    \/ CallAinterleaveQueued
    \/ \E k \in 1..MaxQueued : DrainPut(k)
    \/ \E k \in 1..MaxQueued : DrainEnd(k)
    \/ QueueGet
    \/ Gather

SpecQueued == InitUtils /\ [][NextQueued]_vars

\* item lists in which an iterator yields the value None
QueuedListsWithNone ==
    QueuedLists \cup {<<None>>, <<None, "a">>, <<"a", None>>}

\* the call made with iterators that may yield None
CallAinterleaveQueuedNone ==
    /\ call = NoCall
    /\ \E iters \in SeqsUpTo([items : QueuedListsWithNone, raises : {FALSE}],
                              MaxQueued) :
        call' = [fn |-> "ainterleave_queued",
                 iters |-> iters,
                 sent |-> [k \in 1..Len(iters) |-> 0],
                 status |-> [k \in 1..Len(iters) |-> "running"],
                 queue |-> <<>>,
                 finished |-> 0,
                 total |-> Len(iters),
                 yielded |-> <<>>,
                 pc |-> "loop"]
    /\ UNCHANGED driver

NextQueuedNone ==
    \/ CallAinterleaveQueuedNone
    \/ \E k \in 1..MaxQueued : DrainPut(k)
    \/ \E k \in 1..MaxQueued : DrainEnd(k)
    \/ QueueGet
    \/ Gather

SpecQueuedNone == InitUtils /\ [][NextQueuedNone]_vars

\* the event loop runs every task that can run
FairQueued ==
    /\ SpecQueued
    /\ \A k \in 1..MaxQueued : WF_vars(DrainPut(k)) /\ WF_vars(DrainEnd(k))
    /\ WF_vars(QueueGet)
    /\ WF_vars(Gather)

(* -------------------- _extract_batch, step by step --------------------- *)
\* One call of _extract_batch with its while loop taken one test at a time.
\* call holds the frame: the pool, the candidate batch, the pool as it was
\* passed (pool_before) and the count of halvings so far.
MaxPool == 5

\* pools of up to MaxPool items with distinct ids, each short or long
ExtractPools ==
    UNION {{[i \in 1..n |-> [item_id |-> i, xml_len |-> lens[i]]] :
                lens \in [1..n -> {XmlLens.short, XmlLens.long}]} :
           n \in 0..MaxPool}

\* lines 215-216: the candidate popped from the end of the pool
CallExtractBatch ==
    /\ call = NoCall
    /\ \E pool \in ExtractPools, size \in 1..MaxPool,
          max_tokens \in TokenBudgets :
        LET items_to_batch == Min(size, Len(pool))
            n == Len(pool)
        IN  call' = [fn |-> "_extract_batch",
                     pool_before |-> pool,
                     batch_size |-> size,
                     max_input_tokens |-> max_tokens,
                     items_to_process |-> SubSeq(pool, 1, n - items_to_batch),
                     batch |-> [i \in 1..items_to_batch |-> pool[n + 1 - i]],
                     halvings |-> 0,
                     pc |-> "while"]
    /\ UNCHANGED driver

\* a split that returns nothing to the pool
HalvedLosing(pool, batch) ==
    [pool |-> pool,
     batch |-> SubSeq(batch, Len(batch) \div 2 + 1, Len(batch))]

\* a split that returns one item to the pool
HalvedByOne(pool, batch) ==
    [pool |-> pool \o SubSeq(batch, 1, 1),
     batch |-> SubSeq(batch, 2, Len(batch))]

\* lines 229-230: the first half back to the pool, the second half kept
Halved(pool, batch) ==
    [pool |-> pool \o SubSeq(batch, 1, Len(batch) \div 2),
     batch |-> SubSeq(batch, Len(batch) \div 2 + 1, Len(batch))]

\* giving up while two items are left
CannotReduceAtTwo(batch) == Len(batch) <= 2

\* line 219: the candidate cannot be reduced further
CannotReduce(batch) == Len(batch) = 1

\* lines 218-232: one test of the while condition and what follows it
ExtractStep ==
    /\ call.fn = "_extract_batch"
    /\ call.pc = "while"
    /\ IF batch_token_estimator(call.batch) > call.max_input_tokens
       THEN IF CannotReduce(call.batch)
            THEN call' = [call EXCEPT !.pc = "raised"]
            ELSE LET h == Halved(call.items_to_process, call.batch)
                 IN  call' = [call EXCEPT !.items_to_process = h.pool,
                                          !.batch = h.batch,
                                          !.halvings = @ + 1]
       ELSE call' = [call EXCEPT !.pc = "returned"]
    /\ UNCHANGED driver

NextExtract ==
    \/ CallExtractBatch
    \/ ExtractStep

SpecExtract == InitUtils /\ [][NextExtract]_vars

\* the call runs on: nothing suspends it
FairExtract == SpecExtract /\ WF_vars(ExtractStep)

(* ------------------ builder/queries: pagination ----------------------- *)
\* search_products_paginated (search.py) and paginate (queries/base.py) run
\* the same loop.  The API answers a request at an offset with a page that
\* reports paging.total and paging.limit; total is fixed for a call, the
\* limit is whatever the API reports.  call holds the frame, the offsets
\* requested and the pages yielded.
MaxTotal == 4

MaxLimit == 2

\* requests of one call that are followed
MaxRequests == MaxTotal + 2

\* the offset advanced by one whatever the page reports
NextOffsetByOne(offset, response) == offset + 1

\* offset += response.paging.limit
NextOffset(offset, response) == offset + response.paging.limit

\* offset = 0, before the first request
CallPaginated ==
    /\ call = NoCall
    /\ \E fn \in {"search_products_paginated", "paginate"},
          total \in 0..MaxTotal :
        call' = [fn |-> fn,
                 total |-> total,
                 offset |-> 0,
                 requests |-> <<>>,
                 yielded |-> <<>>,
                 zero_limit |-> FALSE,
                 pc |-> "loop"]
    /\ UNCHANGED driver

\* one turn of `while True`: request, yield, advance, test
PageStep ==
    /\ call.fn \in {"search_products_paginated", "paginate"}
    /\ call.pc = "loop"
    /\ Len(call.requests) < MaxRequests
    /\ \E limit \in 0..MaxLimit :
        LET response == [paging |-> [total |-> call.total,
                                     offset |-> call.offset,
                                     limit |-> limit]]
            offset == NextOffset(call.offset, response)
        IN  call' = [call EXCEPT
                       !.requests = Append(@, call.offset),
                       !.yielded = Append(@, response),
                       !.offset = offset,
                       !.zero_limit = @ \/ limit = 0,
                       !.pc = IF offset >= response.paging.total
                              THEN "done" ELSE "loop"]
    /\ UNCHANGED driver

NextPaginate ==
    \/ CallPaginated
    \/ PageStep

SpecPaginate == InitUtils /\ [][NextPaginate]_vars

\* every request is answered
FairPaginate == SpecPaginate /\ WF_vars(PageStep)

(* ------------------ builder: the items of a query --------------------- *)
\* _items_from_query over the pages of its search.  A search result is
\* modelled by how get_product ends for it: with a product, with HTTPError,
\* or with any other exception.  call holds the frame; failed_in_a_row is
\* history: the fetches that have failed since the last product.
MAX_CONSECUTIVE_FAILURES == 10

MaxResults == 12

MaxPageLen == 2

FetchOutcomes == {"product", "HTTPError", "other"}

\* what the task of _maybe_get_product ends with
_maybe_get_product(outcome) ==
    CASE outcome = "product" -> [raised |-> "none", value |-> "product"]
      [] outcome = "HTTPError" -> [raised |-> "none", value |-> None]
      [] OTHER -> [raised |-> outcome]

CallItemsFromQuery ==
    /\ call = NoCall
    /\ call' = [fn |-> "_items_from_query",
                page |-> <<>>,
                consecutive_failures |-> 0,
                items_collected |-> 0,
                failed_in_a_row |-> 0,
                results_seen |-> 0,
                pc |-> "page",
                error |-> "none"]
    /\ UNCHANGED driver

\* the search yields its next page and the TaskGroup runs one task per
\* result to its end, or the search is exhausted
QueryPage ==
    /\ call.fn = "_items_from_query"
    /\ call.pc = "page"
    /\ \/ call' = [call EXCEPT !.pc = "completed"]
       \/ /\ call.results_seen + MaxPageLen <= MaxResults
          /\ \E outcomes \in SeqsUpTo(FetchOutcomes, MaxPageLen) :
               LET tasks_of_page ==
                       [k \in 1..Len(outcomes) |->
                           _maybe_get_product(outcomes[k])]
               IN  IF \E k \in 1..Len(outcomes) :
                          tasks_of_page[k].raised # "none"
                   THEN call' = [call EXCEPT !.pc = "raised",
                                             !.error = "ExceptionGroup"]
                   ELSE call' = [call EXCEPT !.page = tasks_of_page,
                                             !.pc = "for"]
    /\ UNCHANGED driver

\* one turn of the for loop over the results of the page
QueryResult ==
    /\ call.fn = "_items_from_query"
    /\ call.pc = "for"
    /\ IF call.page = <<>>
       THEN call' = [call EXCEPT !.pc = "page"]
       ELSE IF call.consecutive_failures >= MAX_CONSECUTIVE_FAILURES
       THEN call' = [call EXCEPT !.pc = "raised", !.error = "ValueError"]
       ELSE LET product_task == Head(call.page)
            IN  IF product_task.raised = "HTTPError"
                THEN call' = [call EXCEPT
                                !.page = Tail(@),
                                !.results_seen = @ + 1,
                                !.failed_in_a_row = @ + 1,
                                !.consecutive_failures = @ + 1]
                ELSE IF product_task.value = None
                THEN call' = [call EXCEPT
                                !.page = Tail(@),
                                !.results_seen = @ + 1,
                                !.failed_in_a_row = @ + 1]
                ELSE call' = [call EXCEPT
                                !.page = Tail(@),
                                !.results_seen = @ + 1,
                                !.failed_in_a_row = 0,
                                !.items_collected = @ + 1,
                                !.consecutive_failures = 0]
    /\ UNCHANGED driver

NextQuery ==
    \/ CallItemsFromQuery
    \/ QueryPage
    \/ QueryResult

SpecQuery == InitUtils /\ [][NextQuery]_vars

(* ------------------- scripts/evaluate_on_hazmat.py --------------------- *)
\* The batch loop of the evaluation script.  The script builds its agent and
\* its prompts with names of an earlier HazmatAgent; the loop is modelled with
\* the agent built, input the certainly-hazmat items, --max-input-tokens given
\* and xml_len the length of an item in the rendering the script asks for.

\* the initial batch of an iteration: the whole pool when it is smaller than
\* batch_size, else batch_size items popped from its end
eval_initial_batch(pool, size) ==
    IF Len(pool) < size
    THEN [batch |-> pool, pool |-> <<>>]
    ELSE [batch |-> [i \in 1..size |-> pool[Len(pool) + 1 - i]],
          pool |-> SubSeq(pool, 1, Len(pool) - size)]

RECURSIVE eval_reduce_batch(_, _, _)
\* the inner while: halve while the estimate is over the budget; a single
\* item over the budget is reported as skipped and the while left by break
eval_reduce_batch(pool, batch, max_tokens) ==
    IF batch_token_estimator(batch) > max_tokens
    THEN IF Len(batch) = 1
         THEN [skipped |-> TRUE, batch |-> batch, pool |-> pool]
         ELSE LET h == Len(batch) \div 2
              IN  eval_reduce_batch(pool \o SubSeq(batch, 1, h),
                                    SubSeq(batch, h + 1, Len(batch)),
                                    max_tokens)
    ELSE [skipped |-> FALSE, batch |-> batch, pool |-> pool]

InitEval == Init /\ parallel_batches = 1

\* the script up to its loop; it returns at once when no item is left
EvalStart ==
    /\ pc = "start"
    /\ items_to_process' = input
    /\ pc' = IF input = <<>> THEN "summary" ELSE "eval"
    /\ UNCHANGED <<config, on_existing_output, output_exists, output_file,
                   tasks, error, run_base, prev_completed, call, all_results, dispatched>>

\* one iteration of `while items_to_process`, the model answering with a
EvalBatchWith(a) ==
    /\ pc = "eval"
    /\ items_to_process # <<>>
    /\ LET first == eval_initial_batch(items_to_process, batch_size)
           red == eval_reduce_batch(first.pool, first.batch, max_input_tokens)
           batch == red.batch
           r == IF a.raised THEN [raised |-> "Exception"]
                ELSE classify_batch(batch, a.predictions, FALSE)
       IN  /\ call' = [fn |-> "classify_batch",
                       items |-> batch,
                       predictions |-> a.predictions,
                       allow_mismatched_predictions |-> FALSE,
                       result |-> r]
           /\ IF r.raised # "none"
              THEN /\ items_to_process' = red.pool \o batch
                   /\ UNCHANGED all_results
              ELSE /\ items_to_process' =
                          red.pool \o Filter(batch,
                                             Ids(batch) \ Ids(r.value))
                   /\ all_results' = all_results \o r.value
           /\ pc' = IF items_to_process' # <<>> THEN "eval" ELSE "summary"
    /\ UNCHANGED <<config, on_existing_output, output_exists, output_file,
                   tasks, error, run_base, prev_completed, dispatched>>

EvalBatch ==
    \E a \in ModelAnswers(
                eval_reduce_batch(
                    eval_initial_batch(items_to_process, batch_size).pool,
                    eval_initial_batch(items_to_process, batch_size).batch,
                    max_input_tokens).batch) :
        EvalBatchWith(a)

NextEval == EvalStart \/ EvalBatch

SpecEval == InitEval /\ [][NextEval]_vars

(* ------------------------------ claims --------------------------------- *)
\* the lines the current run has written
WrittenThisRun == SubSeq(output_file, run_base + 1, Len(output_file))

\* what a step appends to a sequence that it only extends
Appended(old, new) == SubSeq(new, Len(old) + 1, Len(new))

Extends(old, new) ==
    /\ Len(old) <= Len(new)
    /\ SubSeq(new, 1, Len(old)) = old

\* C1: every batch _extract_batch returns (each becomes a task at once) has an
\* overestimate-mode token estimate within max_input_tokens, and when it fails
\* the candidate batch is a single item that is over the budget.
C1_TokenBudget ==
    /\ \A t \in tasks : batch_token_estimator(t.batch) <= max_input_tokens
    /\ error.type = "ValueError" =>
          /\ Len(error.batch) = 1
          /\ batch_token_estimator(error.batch) > max_input_tokens

\* a batch was halved: the sequential driver has just dispatched a batch
\* smaller than batch_size and left items in the pool
C1_Witness ==
    /\ parallel_batches = 1
    /\ pc = "fill"
    /\ items_to_process # <<>>
    /\ \E t \in tasks : Len(t.batch) < batch_size

\* C2: when the run ends, the size of the initial pool equals the number of
\* items written by the run plus the number of items that failed as too large.
C2_Conservation ==
    (pc \in {"done", "error"} /\ error.type # "FileExistsError") =>
        Len(input) - Cardinality(Ids(input)
                                 \cap Ids(SubSeq(output_file, 1, run_base)))
          = Len(WrittenThisRun)
            + (IF error.type = "ValueError" THEN Len(error.batch) ELSE 0)

\* C3: every record a step writes has the item_id of an item of a batch
\* reconciled by that step, returned for that batch; an item of the batch whose
\* id the model did not return is put back into the pool and gets no record,
\* whatever other ids the model returned.
C3_WrittenIdsWereSent ==
    [][LET new == Appended(output_file, output_file')
           done == {t \in tasks \ tasks' : t.status = "done"}
       IN  /\ \A i \in 1..Len(new) :
                \E t \in done :
                    new[i].item_id \in Ids(t.batch) \cap t.prediction_ids
           /\ pc = "wait" =>
                /\ Extends(output_file, output_file')
                /\ \A t \in done : \A k \in 1..Len(t.batch) :
                      t.batch[k].item_id \notin t.prediction_ids =>
                         /\ t.batch[k] \in
                               Range(Appended(items_to_process,
                                              items_to_process'))
                         /\ t.batch[k].item_id \notin Ids(new)
      ]_vars

\* a task got an id it was not sent, together with some but not all of its own
C3_Witness ==
    \E t \in tasks :
        /\ t.status = "done"
        /\ (t.prediction_ids \ Ids(t.batch)) # {}
        /\ t.results # <<>>
        /\ Len(t.results) < Len(t.batch)

\* C4: under the lenient policy classify_batch returns exactly one labeled
\* item per id both sent and received and none for another id, and the driver
\* re-queues exactly the sent items whose id was not received.
C4_LenientReconcile ==
    [][(pc = "wait" /\ pc' # "wait") =>
        LET done == {t \in tasks \ tasks' : t.status = "done"}
            requeued == Appended(items_to_process, items_to_process')
            missing == {it \in UNION {Range(t.batch) : t \in done} :
                          \E t \in done : /\ it \in Range(t.batch)
                                          /\ it.item_id \notin t.prediction_ids}
        IN  /\ Extends(items_to_process, items_to_process')
            /\ Range(requeued) = missing
            /\ Len(requeued) = Cardinality(missing)
            /\ \A t \in done :
                  /\ Ids(t.results) = Ids(t.batch) \cap t.prediction_ids
                  /\ Len(t.results) = Cardinality(Ids(t.results))
      ]_vars

\* three short items were sent in one batch; two are written, one is pooled
C4_Witness ==
    /\ parallel_batches = 1
    /\ batch_size = 3
    /\ Len(input) = 3
    /\ \A i \in 1..Len(input) : input[i].xml_len = XmlLens.short
    /\ max_input_tokens = 85
    /\ pc = "fill"
    /\ tasks = {}
    /\ Len(WrittenThisRun) = 2
    /\ Len(items_to_process) = 1

\* C5: no item_id is written more than once within a run.
C5_NoDuplicateWrites ==
    \A i, j \in (run_base + 1)..Len(output_file) :
        output_file[i].item_id = output_file[j].item_id => i = j

\* the first batch is <<item 2, item 1>> and a full answer is written in that
\* order: the order 1, 2 shows that an item was attempted again
C5_Witness ==
    /\ parallel_batches = 1
    /\ batch_size = 2
    /\ Len(input) = 2
    /\ max_input_tokens = 85
    /\ \A i \in 1..Len(input) : input[i].xml_len = XmlLens.short
    /\ pc = "done"
    /\ run_base = 0
    /\ Len(output_file) = 2
    /\ output_file[1].item_id = 1
    /\ output_file[2].item_id = 2

\* C6: a task whose model call raised ends without an exception and with an
\* empty result list; the driver then puts every item of its batch back into
\* the pool, writes no record for it and goes on with the loop.
C6_ExceptionsAbsorbed ==
    [][\A t \in tasks : t.raised =>
          /\ t.exception = "none"
          /\ t.results = <<>>
          /\ (pc = "wait" /\ t \notin tasks') =>
                /\ pc' = "fill"
                /\ error' = NoError
                /\ Range(t.batch) \subseteq
                      Range(Appended(items_to_process, items_to_process'))
                /\ Ids(t.batch) \cap
                      Ids(Appended(output_file, output_file')) = {}
      ]_vars

\* the model call of a batch of two raised
C6_Witness ==
    \E t \in tasks : t.status = "done" /\ t.raised /\ Len(t.batch) >= 2

\* no item is over the token budget on its own
EveryItemFits ==
    \A i \in 1..Len(input) :
        batch_token_estimator(<<input[i]>>) <= max_input_tokens

AllWritten == Ids(input) \subseteq Ids(output_file)

\* C7: if no single item exceeds the token budget and the model eventually
\* answers for every item that is retried, a run that enters the loop reaches
\* DONE with every item of the input written.
C7_EventuallyDone ==
    (pc = "fill" /\ EveryItemFits) ~> (pc = "done" /\ AllWritten)

\* a run of two items with batch_size 2 that had to halve its first batch, so
\* used more than one batch, is done with both items written
C7_Witness ==
    /\ pc = "done"
    /\ AllWritten
    /\ EveryItemFits
    /\ Len(input) = 2
    /\ batch_size = 2
    /\ batch_token_estimator(input) > max_input_tokens
    /\ run_base = 0

\* C8: in a run with on_existing_output=continue that follows a completed run
\* the pool starts empty, no batch is dispatched, no record is appended, and
\* the output holds each input item exactly once.
C8_IdempotentResume ==
    (prev_completed /\ pc # "start" /\ on_existing_output = "continue") =>
        /\ pc = "done"
        /\ items_to_process = <<>>
        /\ tasks = {}
        /\ run_base = Len(output_file)
        /\ Len(output_file) = Len(input)
        /\ \A i \in 1..Len(input) :
              \E k \in 1..Len(output_file) :
                  output_file[k].item_id = input[i].item_id

C8_Witness ==
    /\ prev_completed
    /\ on_existing_output = "continue"
    /\ pc = "done"
    /\ Len(input) >= 2

\* C9: with on_existing_output=continue the pool starts as the input items
\* whose id is not in the existing output, and every step of the run leaves the
\* lines already in the file in place, adding lines only after them.
C9_ResumeFrame ==
    [][on_existing_output' = "continue" =>
          /\ Extends(output_file, output_file')
          /\ pc = "start" =>
                /\ output_file' = output_file
                /\ items_to_process' =
                      SelectSeq(input,
                          LAMBDA it : it.item_id \notin Ids(output_file))
      ]_vars

\* a resumed run found some of the items written and has appended more
C9_Witness ==
    /\ on_existing_output = "continue"
    /\ 0 < run_base
    /\ run_base < Len(output_file)

\* C10: under the strict policy predict_batch raises
\* MismatchedPredictionsError, carrying both id sets, exactly when the set of
\* returned ids differs from the set of sent ids, and returns the predictions
\* when the sets are equal.
C10_StrictMismatch ==
    (call.fn = "predict_batch" /\ ~call.allow_mismatched_predictions) =>
        LET sent == {call.items[i].item_id : i \in DOMAIN call.items}
            got == {call.predictions[i].item_id : i \in DOMAIN call.predictions}
        IN  IF sent = got
            THEN call.result = [raised |-> "none", value |-> call.predictions]
            ELSE call.result = [raised |-> "MismatchedPredictionsError",
                                input_ids |-> sent,
                                prediction_ids |-> got]

\* a strict call whose answer covers every sent id and adds another one
C10_Witness ==
    /\ call.fn = "predict_batch"
    /\ ~call.allow_mismatched_predictions
    /\ call.items # <<>>
    /\ Ids(call.items) \subseteq Ids(call.predictions)
    /\ Ids(call.items) # Ids(call.predictions)
    /\ call.result.raised = "MismatchedPredictionsError"

\* C11: a MismatchedPredictionsError raised by the strict policy during a
\* batch attempt ends the loop and reaches the caller; the batch is not put
\* back into the pool.
C11_StrictMismatchAborts ==
    [][(/\ pc = "eval"
        /\ call'.fn = "classify_batch"
        /\ call'.result.raised = "MismatchedPredictionsError")
          => /\ pc' = "error"
             /\ error'.type = "MismatchedPredictionsError"
             /\ items_to_process' = eval_reduce_batch(
                    eval_initial_batch(items_to_process, batch_size).pool,
                    eval_initial_batch(items_to_process, batch_size).batch,
                    max_input_tokens).pool
      ]_vars

\* C12: when the run has met an item that is over the token budget on its
\* own, the error names that one item and every other item of the input has
\* been written.
C12_OnlyOffendingItemFails ==
    error.type = "ValueError" =>
        /\ Len(error.batch) = 1
        /\ (Ids(input) \ Ids(error.batch)) \subseteq Ids(output_file)

\* C13: the number of batches in flight never exceeds parallel_batches, and
\* with parallel_batches = 1 a batch is dispatched only when no batch is in
\* flight: the batch before it has been reconciled.
C13_BoundedInFlight ==
    /\ [](Cardinality(tasks) <= parallel_batches)
    /\ [][(parallel_batches = 1 /\ (tasks' \ tasks) # {} /\ pc = "fill")
             => tasks = {}]_vars

\* both slots are taken and items are still waiting in the pool
C13_Witness ==
    /\ pc = "wait"
    /\ parallel_batches = 2
    /\ Cardinality(tasks) = 2
    /\ items_to_process # <<>>

\* C14: main leaves its loop normally only with an empty pool and no task in
\* flight; no step takes it there while an item is in the pool or a task is
\* in flight.
C14_DoneOnlyWhenDrained ==
    /\ [](pc = "done" => (items_to_process = <<>> /\ tasks = {}))
    /\ [][(pc # "done" /\ pc' = "done")
             => (items_to_process' = <<>> /\ tasks' = {})]_vars

\* a concurrent run of three items has ended normally
C14_Witness ==
    /\ pc = "done"
    /\ parallel_batches = 2
    /\ Len(WrittenThisRun) = 3

\* the place of the record of item id in a sequence of records, 0 if none
PlaceIn(records, id) ==
    IF id \in Ids(records)
    THEN CHOOSE k \in 1..Len(records) : records[k].item_id = id
    ELSE 0

\* a step that writes the results of a batch writes them with no result of a
\* batch dispatched after it written before them
DispatchOrderKept ==
    LET new == Appended(output_file, output_file')
        order == dispatched.order
        done == {t \in tasks \ tasks' : t.status = "done" /\ t.results # <<>>}
    IN  \A t \in done : \A p, q \in 1..Len(order) :
            (order[p].batch = t.batch /\ ~order[p].written /\ p < q) =>
                /\ ~order[q].written
                /\ \A u \in done : u.batch = order[q].batch =>
                      \A x \in Ids(t.results), y \in Ids(u.results) :
                          PlaceIn(new, x) < PlaceIn(new, y)

\* C15 as claimed: for any two batches of a run, whatever parallel_batches and
\* the order of completion, the resolved items of the batch dispatched first
\* are written before any result of the batch dispatched after it.
C15_DispatchOrder == [][pc = "wait" => DispatchOrderKept]_vars

\* C15 as amended: with parallel_batches = 1 the resolved items of the batch
\* dispatched first are written before any result of a batch dispatched after
\* it.
C15_DispatchOrderSequential ==
    [][(pc = "wait" /\ parallel_batches = 1) => DispatchOrderKept]_vars

\* a sequential run has written the results of two batches, one after the other
C15_Witness ==
    /\ dispatched.on
    /\ parallel_batches = 1
    /\ batch_size = 1
    /\ pc = "done"
    /\ Len(WrittenThisRun) >= 2

\* C16: the records of a batch are written by the reconciliation step that
\* takes its task out of the task set, next to one another and in the order
\* the task returned them, with nothing but the records of the batches
\* reconciled in that step beside them; a step in which a task runs, a
\* dispatch and the step into asyncio.wait write nothing.
C16_WrittenTogether ==
    [][LET new == Appended(output_file, output_file')
           done == {t \in tasks \ tasks' : t.status = "done"}
       IN  /\ pc \in {"fill", "done", "error"} => output_file' = output_file
           /\ (pc = "wait" /\ pc' = "wait") => output_file' = output_file
           /\ (pc = "wait" /\ pc' # "wait") =>
                 /\ Extends(output_file, output_file')
                 /\ tasks' \subseteq tasks
                 /\ \A t \in done :
                       \E k \in 0..(Len(new) - Len(t.results)) :
                           SubSeq(new, k + 1, k + Len(t.results)) = t.results
                 /\ Ids(new) = UNION {Ids(t.results) : t \in done}
                 /\ Len(new) = Cardinality(Ids(new))
      ]_vars

\* two tasks are done, one with two results and one with one
C16_Witness ==
    /\ pc = "wait"
    /\ \E t, u \in tasks :
          /\ t.status = "done" /\ u.status = "done"
          /\ Len(t.results) = 2
          /\ Len(u.results) = 1

\* C17: when the model call fails for every batch that holds one item and
\* answers every other batch in full, a run that enters the loop with no item
\* over the budget eventually has every other item written.
C17_ForwardProgress ==
    (pc = "fill" /\ EveryItemFits)
        ~> ((Ids(input) \ {PoisonId}) \subseteq Ids(output_file))

\* the input fields a labeled item carries
CarriedInputFields ==
    {"item_id", "name", "domain_id", "family_name", "description",
     "short_description", "keywords"}

\* C18: for an input item and a prediction with the same item_id, the
\* prediction read back from the labeled item equals the prediction, and the
\* input item read back equals the input item on every input field the
\* labeled item carries.
C18_RoundTrip ==
    (call.fn = "HazmatLabeledItem" /\ call.result.raised = "none") =>
        /\ call.read_prediction = call.prediction
        /\ \A f \in CarriedInputFields :
              call.read_input_item[f] = call.input_item[f]

\* C19: from_input_and_prediction raises MismatchedItemIdsError and yields no
\* labeled item when the two ids differ; a labeled item that classify_item or
\* classify_batch returns joins an input item and a prediction of one id.
C19_NoMismatchedLabel ==
    /\ call.fn = "from_input_and_prediction" =>
          IF call.item.item_id # call.prediction.item_id
          THEN call.result = [raised |-> "MismatchedItemIdsError"]
          ELSE /\ call.result.raised = "none"
               /\ call.result.value.item_id = call.item.item_id
               /\ call.result.value.is_hazmat = call.prediction.is_hazmat
    /\ (call.fn = "classify_item" /\ call.result.raised = "none") =>
          /\ call.item.item_id = call.prediction.item_id
          /\ call.result.value.item_id = call.item.item_id
          /\ call.result.value.is_hazmat = call.prediction.is_hazmat
    /\ (call.fn = "classify_item" /\ call.result.raised # "none") =>
          call.item.item_id # call.prediction.item_id
    /\ (call.fn = "classify_batch" /\ call.result.raised = "none") =>
          \A k \in 1..Len(call.result.value) :
              LET labeled == call.result.value[k]
              IN  /\ \E i \in 1..Len(call.items) :
                        /\ call.items[i].item_id = labeled.item_id
                        /\ call.items[i].xml_len = labeled.xml_len
                  /\ \E j \in 1..Len(call.predictions) :
                        /\ call.predictions[j].item_id = labeled.item_id
                        /\ call.predictions[j].is_hazmat = labeled.is_hazmat

\* from_input_and_prediction was called with two different ids and raised
C19_Witness ==
    /\ call.fn = "from_input_and_prediction"
    /\ call.item.item_id # call.prediction.item_id
    /\ call.result.raised = "MismatchedItemIdsError"

\* C20: when the id of the prediction differs from the id of the item,
\* predict_item raises MismatchedItemIdsError under 'raise' and when the policy
\* is left out, returns the prediction with the item's id and its other fields
\* as they were under 'fix', and returns the prediction as it was under
\* 'ignore'; when the ids are equal it returns the prediction as it was.
C20_OnDifferentId ==
    call.fn = "predict_item" =>
        IF call.prediction.item_id = call.item.item_id
        THEN call.result = [raised |-> "none", value |-> call.prediction]
        ELSE CASE call.on_different_id \in {"raise", "omitted"} ->
                    call.result = [raised |-> "MismatchedItemIdsError"]
               [] call.on_different_id = "fix" ->
                    call.result =
                        [raised |-> "none",
                         value |-> [item_id |-> call.item.item_id,
                                    is_hazmat |-> call.prediction.is_hazmat]]
               [] call.on_different_id = "ignore" ->
                    call.result = [raised |-> "none",
                                   value |-> call.prediction]

\* predict_item was called with 'fix' and got the id of another item
C20_Witness ==
    /\ call.fn = "predict_item"
    /\ call.on_different_id = "fix"
    /\ call.prediction.item_id \in 1..MaxCallLen
    /\ call.prediction.item_id # call.item.item_id
    /\ call.result.raised = "none"
    /\ call.result.value.item_id = call.item.item_id

(* ------------------------- C21: existing output ------------------------- *)
\* C21: started with on_existing_output = raise while the output file exists,
\* the run fails with FileExistsError at once: no pool is built, no task is
\* created (so no batch is extracted and no model call is made), and the
\* output file keeps its content for as long as the run stays failed.
C21_RaiseOnExisting ==
    /\ [](pc = "error" /\ error.type = "FileExistsError"
            => tasks = {} /\ items_to_process = <<>> /\ output_exists)
    /\ [][/\ (pc = "start" /\ output_exists /\ pc' # "start"
               /\ on_existing_output' = "raise")
              => /\ pc' = "error"
                 /\ error'.type = "FileExistsError"
                 /\ tasks' = {}
                 /\ UNCHANGED <<output_file, output_exists, items_to_process>>
          /\ (pc = "error" /\ error.type = "FileExistsError")
              => UNCHANGED output_file /\ pc' \in {"error", "start"}]_vars

C21_Witness ==
    /\ pc = "error"
    /\ error.type = "FileExistsError"
    /\ on_existing_output = "raise"
    /\ Len(output_file) >= 1

(* ----------------------- C22: estimate_token_count ---------------------- *)
\* C22: for every text, estimate_token_count returns ceil(len(text) / 3) in
\* overestimate mode and floor(len(text) / 5) in underestimate mode: the
\* result is the natural number the length alone determines, the call
\* returns a value (no error outcome) and leaves every other state alone.
C22_TokenEstimate ==
    /\ [](call.fn = "estimate_token_count" =>
            LET n == Len(call.text)
                r == call.result
            IN  /\ r \in Nat
                /\ call.approximation_mode = "overestimate"
                   => 3 * r >= n /\ 3 * (r - 1) < n
                /\ call.approximation_mode = "underestimate"
                   => 5 * r <= n /\ n < 5 * (r + 1))
    /\ [][call'.fn = "estimate_token_count" => UNCHANGED driver]_vars

C22_Witness ==
    /\ call.fn = "estimate_token_count"
    /\ call.approximation_mode = "overestimate"
    /\ Len(call.text) % 3 = 1
    /\ call.result = 4

(* --------------------------- C24: ainterleave --------------------------- *)
\* the (iterator, round) pairs of the items of a list of iterators
Turns(iterators) ==
    {<<k, r>> \in (1..Len(iterators)) \X (1..MaxIterLen + 1) :
        r <= Len(iterators[k])}

\* the place of a turn in round-robin order: rounds in order, and within a
\* round the iterators that still have an item, in argument order
Place(iterators, turn) ==
    1 + Cardinality({t \in Turns(iterators) :
                        \/ t[2] < turn[2]
                        \/ t[2] = turn[2] /\ t[1] < turn[1]})

\* C24: ainterleave yields the items round by round, in each round one item of
\* each iterator not yet exhausted, in argument order; so every item of every
\* iterator is yielded exactly once, each iterator's order is kept, and
\* nothing is yielded for no iterators or only empty ones.
C24_RoundRobin ==
    call.fn = "ainterleave" =>
        LET its == call.async_iterators
        IN  /\ Len(call.result) = Cardinality(Turns(its))
            /\ \A t \in Turns(its) :
                   call.result[Place(its, t)] = its[t[1]][t[2]]
            /\ (\A k \in 1..Len(its) : its[k] = <<>>) => call.result = <<>>

C24_Witness ==
    /\ call.fn = "ainterleave"
    /\ call.async_iterators = <<<<"a", "b">>, <<>>, <<"b", "a">>>>
    /\ call.result = <<"a", "b", "b", "a">>

(* ----------------------------- C25: aislice ----------------------------- *)
\* C25: aislice(it, start, stop) yields the source elements whose index,
\* counted from 0, is in [start, stop), in source order: nothing when
\* start >= stop or start is past the end, through the last element when
\* stop is past the end.
C25_Slice ==
    (call.fn = "aislice" /\ call.stop # <<>>) =>
        LET source == call.async_iterator
            start == call.start
            stop == call.stop[1]
            inside == {k \in 1..Len(source) : start <= k - 1 /\ k - 1 < stop}
        IN  /\ Len(call.result) = Cardinality(inside)
            /\ \A k \in inside :
                   call.result[1 + Cardinality({j \in inside : j < k})]
                       = source[k]
            /\ (start >= stop \/ start >= Len(source)) => call.result = <<>>
            /\ (stop >= Len(source) /\ 0 <= start /\ start < Len(source))
               => call.result = SubSeq(source, start + 1, Len(source))

C25_Witness ==
    /\ call.fn = "aislice"
    /\ call.async_iterator = <<"a", "b">>
    /\ call.start = 1
    /\ call.stop = <<2>>
    /\ call.result = <<"b">>

(* ------------------------ C23: ainterleave_queued ----------------------- *)
RECURSIVE IsMerge(_, _)
\* out is an interleaving of the sequences of its: every item of every
\* sequence once, each sequence in its own order
IsMerge(out, its) ==
    IF out = <<>> THEN \A k \in 1..Len(its) : its[k] = <<>>
    ELSE \E k \in 1..Len(its) :
            /\ its[k] # <<>>
            /\ Head(its[k]) = Head(out)
            /\ IsMerge(Tail(out), [its EXCEPT ![k] = Tail(@)])

ItemsOf(iters) == [k \in 1..Len(iters) |-> iters[k].items]

NoneRaises(iters) == \A k \in 1..Len(iters) : ~iters[k].raises

\* C23: called with iterators that end normally, ainterleave_queued returns
\* under every interleaving of the draining tasks, and what it has yielded by
\* then is an interleaving of the iterators: every item once, each
\* iterator's order kept, nothing at all for no or only empty iterators.
C23_QueuedYieldsAll ==
    /\ []((call.fn = "ainterleave_queued" /\ NoneRaises(call.iters)) =>
            /\ call.pc = "returned" => IsMerge(call.yielded, ItemsOf(call.iters))
            /\ (\A k \in 1..Len(call.iters) : call.iters[k].items = <<>>)
               => call.yielded = <<>>)
    /\ (call.fn = "ainterleave_queued" /\ NoneRaises(call.iters))
          ~> (call.fn = "ainterleave_queued" /\ call.pc = "returned")

C23_Witness ==
    /\ call.fn = "ainterleave_queued"
    /\ call.pc = "returned"
    /\ ItemsOf(call.iters) = <<<<"a", "b">>, <<"b", "a">>>>
    /\ NoneRaises(call.iters)
    /\ call.yielded = <<"b", "a", "b", "a">>

(* ------------------ C26: an input iterator that raises ------------------ *)
\* C26: when an input iterator of ainterleave_queued raises, the call still
\* returns, having yielded every item of the other iterators (and the items
\* the failing one yielded before it raised), each once and in order.
C26_RaisingIterator ==
    /\ []((call.fn = "ainterleave_queued" /\ ~NoneRaises(call.iters)
             /\ call.pc = "returned")
            => IsMerge(call.yielded, ItemsOf(call.iters)))
    /\ (call.fn = "ainterleave_queued" /\ ~NoneRaises(call.iters))
          ~> (call.fn = "ainterleave_queued" /\ call.pc = "returned")

C26_Witness ==
    /\ call.fn = "ainterleave_queued"
    /\ call.pc = "returned"
    /\ call.iters = <<[items |-> <<"a">>, raises |-> TRUE],
                      [items |-> <<"b", "a">>, raises |-> FALSE]>>
    /\ call.status = <<"raised", "done">>
    /\ call.yielded = <<"b", "a", "a">>

(* ----------------------- C27: one place per item ------------------------ *)
\* the ids of the pool the current run started with
InitialPoolIds ==
    IF on_existing_output = "continue"
    THEN Ids(input) \ Ids(SubSeq(output_file, 1, run_base))
    ELSE Ids(input)

\* the places of a sequence that hold the item id
PlacesOf(id, s) == {i \in 1..Len(s) : s[i].item_id = id}

\* in how many places an item id is: places of the pool, of the batches in
\* flight, and lines the run has written
Holders(id) ==
    Cardinality(PlacesOf(id, items_to_process))
    + Cardinality({p \in tasks \X (1..MaxItems) :
                      p[2] \in PlacesOf(id, p[1].batch)})
    + Cardinality(PlacesOf(id, WrittenThisRun))

\* the run has built its pool: the loop runs, has ended, or was ended by the
\* ValueError of _extract_batch
PoolBuilt ==
    \/ pc \in {"fill", "wait", "done"}
    \/ pc = "error" /\ error.type = "ValueError"

\* the single item _extract_batch raised for
TooLargeIds ==
    IF pc = "error" /\ error.type = "ValueError" THEN Ids(error.batch) ELSE {}

\* C27 as stated: at every point of a run, every item of the run's initial
\* pool is in exactly one place: the pool, one batch in flight, or the output
\* written by the run.
C27_OnePlace ==
    PoolBuilt => \A id \in InitialPoolIds : Holders(id) = 1

\* C27, amended: the same at every point of a run, except that the item
\* _extract_batch has raised for is in none of the three places.
C27_OnePlaceOrTooLarge ==
    PoolBuilt =>
        \A id \in InitialPoolIds :
            Holders(id) = IF id \in TooLargeIds THEN 0 ELSE 1

\* two batches in flight while a line of the run is written, every item in
\* one place
C27_Witness ==
    /\ pc \in {"fill", "wait"}
    /\ Cardinality(tasks) = 2
    /\ WrittenThisRun # <<>>
    /\ \A id \in InitialPoolIds : Holders(id) = 1

(* --------------------- C28: the frame of a halving ---------------------- *)
\* the frame of a call of _extract_batch that has ended is what the driver's
\* _extract_batch computes in one piece
ExtractAgrees ==
    (call.fn = "_extract_batch" /\ call.pc # "while") =>
        _extract_batch(call.pool_before, call.batch_size,
                       call.max_input_tokens)
            = [raised |-> call.pc = "raised",
               batch |-> call.batch,
               pool |-> call.items_to_process]

\* pool and batch together hold each item of whole once
SplitOf(whole, pool, batch) ==
    /\ Len(pool) + Len(batch) = Len(whole)
    /\ Range(pool) \cup Range(batch) = Range(whole)

\* C28: a halving step of _extract_batch on a candidate of n items appends
\* its first floor(n/2) items to the pool and keeps its last ceil(n/2) items
\* as the candidate; when the call returns, the pool and the returned batch
\* together hold exactly the items of the pool as it was passed.
C28_HalvingFrame ==
    /\ [][(call.fn = "_extract_batch" /\ call'.fn = "_extract_batch"
            /\ call'.halvings # call.halvings) =>
            LET n == Len(call.batch)
                lo == CHOOSE k \in 0..n : 2 * k <= n /\ n < 2 * (k + 1)
                hi == n - lo
            IN  /\ Len(call'.batch) = hi
                /\ \A i \in 1..hi : call'.batch[i] = call.batch[lo + i]
                /\ Len(call'.items_to_process)
                      = Len(call.items_to_process) + lo
                /\ \A i \in 1..Len(call.items_to_process) :
                      call'.items_to_process[i] = call.items_to_process[i]
                /\ \A i \in 1..lo :
                      call'.items_to_process[Len(call.items_to_process) + i]
                          = call.batch[i]]_vars
    /\ []((call.fn = "_extract_batch" /\ call.pc = "returned") =>
            SplitOf(call.pool_before, call.items_to_process, call.batch))
    /\ []ExtractAgrees

\* a call on five items that halved 5 -> 3 -> 2 and returned two of them
C28_Witness ==
    /\ call.fn = "_extract_batch"
    /\ call.pc = "returned"
    /\ Len(call.pool_before) = 5
    /\ call.halvings = 2
    /\ Len(call.batch) = 2
    /\ Len(call.items_to_process) = 3

(* ---------------------- C29: the loop terminates ------------------------ *)
\* the least k with 2^k >= n
CeilLog2(n) == CHOOSE k \in 0..n : 2^k >= n /\ \A j \in 0..(k - 1) : 2^j < n

\* C29: a call of _extract_batch on a non-empty pool with batch_size >= 1
\* ends: each halving makes the candidate strictly smaller, there are at most
\* ceil(log2(batch_size)) of them, and the call then returns a batch within
\* the budget or raises for a single item.
C29_Terminates ==
    /\ [][(call.fn = "_extract_batch" /\ call'.fn = "_extract_batch"
            /\ call'.halvings # call.halvings)
           => Len(call'.batch) < Len(call.batch)]_vars
    /\ []((call.fn = "_extract_batch" /\ call.pool_before # <<>>) =>
            /\ call.halvings <= CeilLog2(call.batch_size)
            /\ call.pc = "returned"
               => batch_token_estimator(call.batch) <= call.max_input_tokens
            /\ call.pc = "raised" => Len(call.batch) = 1)
    /\ (call.fn = "_extract_batch" /\ call.pool_before # <<>>)
          ~> (call.fn = "_extract_batch" /\ call.pc \in {"returned", "raised"})

\* batch_size 5: the call ended after ceil(log2(5)) = 3 halvings
C29_Witness ==
    /\ call.fn = "_extract_batch"
    /\ call.batch_size = 5
    /\ call.halvings = 3
    /\ call.pc \in {"returned", "raised"}

(* ------------------- C30: the frame of the failure ---------------------- *)
\* C30: when _extract_batch raises, its candidate is one item whose estimate
\* alone is over the budget; every other item of the pool as it was passed is
\* in the pool, once, and the offending item is the only one missing from it.
C30_FailureFrame ==
    (call.fn = "_extract_batch" /\ call.pc = "raised") =>
        /\ Len(call.batch) = 1
        /\ batch_token_estimator(call.batch) > call.max_input_tokens
        /\ Range(call.items_to_process)
              = Range(call.pool_before) \ {call.batch[1]}
        /\ Len(call.items_to_process) = Len(call.pool_before) - 1
        /\ call.batch[1] \in Range(call.pool_before)

\* the raise after two halvings, four of the five items back in the pool
C30_Witness ==
    /\ call.fn = "_extract_batch"
    /\ call.pc = "raised"
    /\ call.halvings >= 2
    /\ Len(call.items_to_process) = 4

(* -------------------- C31: no batch is abandoned ------------------------ *)
\* C31: when the run has ended, normally or with an error, no dispatched
\* batch is left in flight: each has run to its end and was reconciled
\* (written or re-queued) by the driver.
C31_NoBatchAbandoned ==
    pc \in {"done", "error"} => tasks = {}

(* ------------------- C32: resuming on first completion ------------------ *)
\* C32: suspended with several batches in flight, the driver resumes as soon
\* as one of them is done; resuming, it reconciles the done batches and
\* leaves the running ones in flight, and is back in its dispatch loop, where
\* a batch is dispatched whenever the pool has an item and fewer than
\* parallel_batches batches are in flight.
C32_ResumeOnFirst ==
    /\ []((pc = "wait" /\ \E t \in tasks : t.status = "done")
            => ENABLED Reconcile)
    /\ []((pc = "fill" /\ items_to_process # <<>>
             /\ Cardinality(tasks) < parallel_batches) => ENABLED Dispatch)
    /\ [][(pc = "wait" /\ pc' # "wait") =>
            /\ tasks' = {t \in tasks : t.status = "running"}
            /\ tasks' # {} => pc' = "fill"]_vars

\* suspended with one batch done and another still running
C32_Witness ==
    /\ pc = "wait"
    /\ \E t \in tasks : t.status = "done"
    /\ \E t \in tasks : t.status = "running"

(* ------------------- C33: never waiting on no task ---------------------- *)
\* C33: whenever the driver is suspended in its await of a first completion,
\* at least one batch is in flight.
C33_WaitsOnSomeTask ==
    pc = "wait" => tasks # {}

\* suspended on the one batch of the last item, the pool empty
C33_Witness ==
    /\ pc = "wait"
    /\ Cardinality(tasks) = 1
    /\ items_to_process = <<>>
    /\ WrittenThisRun # <<>>

(* ---------------------- C34: size of the batch -------------------------- *)
\* C34: every batch _extract_batch returns to the driver, which calls it on a
\* non-empty pool with batch_size >= 1, has at least one item and at most
\* min(batch_size, size of the pool before the call) items; so no batch in
\* flight is empty.
C34_BatchSize ==
    /\ [](\A t \in tasks : Len(t.batch) >= 1 /\ Len(t.batch) <= batch_size)
    /\ [][\A t \in tasks' \ tasks :
            t.status = "running" =>
                /\ items_to_process # <<>>
                /\ Len(t.batch) >= 1
                /\ Len(t.batch) <= Min(batch_size, Len(items_to_process))]_vars

\* a batch_size above the pool's size: the whole pool of two is in one batch
C34_Witness ==
    /\ batch_size = 3
    /\ Len(input) = 2
    /\ \E t \in tasks : Len(t.batch) = 2

(* ---------------- C35: the evaluation script's skip --------------------- *)
\* the candidate of the next iteration of the script's loop after its
\* halving
EvalCandidate ==
    LET first == eval_initial_batch(items_to_process, batch_size)
    IN  eval_reduce_batch(first.pool, first.batch, max_input_tokens)

\* C35: an iteration of the evaluation script's loop whose candidate is a
\* single item over max_input_tokens skips the item: no model call is made
\* for it, it is not in the pool afterwards, and no result is collected.
C35_EvalSkips ==
    [][(pc = "eval" /\ items_to_process # <<>> /\ EvalCandidate.skipped) =>
        /\ call' = call
        /\ all_results' = all_results
        /\ EvalCandidate.batch[1] \notin Range(items_to_process')]_vars

(* -------------------------- C36: pagination ----------------------------- *)
Paginating == call.fn \in {"search_products_paginated", "paginate"}

\* C36: the paginated search (and paginate) requests offset 0 first and then
\* the previous offset plus the limit the previous page reported; it yields
\* each fetched page once, in the order fetched; it has made at least one
\* request when it ends; it ends after the first page with offset + limit >=
\* total and not before; and it ends unless some page reports a limit below 1.
C36_Pagination ==
    /\ [](Paginating =>
            LET n == Len(call.requests)
            IN  /\ n >= 1 => call.requests[1] = 0
                /\ \A k \in 1..(n - 1) :
                      call.requests[k + 1]
                          = call.requests[k] + call.yielded[k].paging.limit
                /\ Len(call.yielded) = n
                /\ \A k \in 1..n :
                      call.yielded[k].paging.offset = call.requests[k]
                /\ \A k \in 1..(n - 1) :
                      call.requests[k] + call.yielded[k].paging.limit
                          < call.total
                /\ call.pc = "done" =>
                      /\ n >= 1
                      /\ call.requests[n] + call.yielded[n].paging.limit
                            >= call.total
                /\ (call.pc = "loop" /\ n >= 1) =>
                      call.requests[n] + call.yielded[n].paging.limit
                          < call.total)
    /\ Paginating ~> (Paginating /\ (call.pc = "done" \/ call.zero_limit))

\* three pages of a total of four: offsets 0, 1 and 3
C36_Witness ==
    /\ call.fn = "search_products_paginated"
    /\ call.pc = "done"
    /\ call.total = 4
    /\ call.requests = <<0, 1, 3>>
    /\ ~call.zero_limit

(* ------------------- C37: consecutive failures -------------------------- *)
\* C37: the item stream of a query never goes on past
\* MAX_CONSECUTIVE_FAILURES product fetches that failed in a row: it stops
\* with an error instead of taking a further result.
C37_StopsAfterFailures ==
    call.fn = "_items_from_query" =>
        call.failed_in_a_row <= MAX_CONSECUTIVE_FAILURES

(* --------------- C38: what aislice takes from its source ---------------- *)
\* C38: aislice with a stop bound takes at most stop elements from its
\* source, as itertools.islice does.
C38_PullsAtMostStop ==
    (call.fn = "aislice" /\ call.stop # <<>> /\ call.stop[1] >= 0) =>
        call.pulled <= call.stop[1]

(* ------------------------ C39: items that are None ---------------------- *)
\* C39: ainterleave_queued delivers every item also when an iterator yields
\* None: when the call returns it has yielded an interleaving of the
\* iterators, the None items included.
C39_NonePassedThrough ==
    (call.fn = "ainterleave_queued" /\ call.pc = "returned") =>
        IsMerge(call.yielded, ItemsOf(call.iters))

====
